---------------------------- MODULE Spec2Model ----------------------------
(***************************************************************************)
(* The assistive-robot decision maker: the simulation engine               *)
(* (core/simulator.py), the action catalog (core/actions.py), the          *)
(* constraint checker (core/constraints.py), the two decision layers       *)
(* (implementation/decision.py, solutions/solution_decision.py) and the    *)
(* driver loop that connects them (solutions/solution.py,                  *)
(* tests/test_comparison.py).                                              *)
(***************************************************************************)
EXTENDS Integers, Sequences, FiniteSets, TLC

(***************************************************************************)
(* Bounds of the model.                                                    *)
(***************************************************************************)
\* longest sequence of direct apply_action calls explored by Spec
MaxCalls == 2
\* largest step budget a driver run is started with
MaxBudget == 4

(***************************************************************************)
(* core/actions.py                                                         *)
(***************************************************************************)
HELP_USER == "help_user"
RECHARGE == "recharge"
WAIT == "wait"
CALL_FOR_HELP == "call_for_help"

\* list(Action): the members in definition order
ActionList == <<HELP_USER, RECHARGE, WAIT, CALL_FOR_HELP>>

Action == {ActionList[i] : i \in 1..Len(ActionList)}

\* Action.__str__: the upper-cased value
ActionStr(action) ==
    CASE action = HELP_USER -> "HELP_USER"
      [] action = RECHARGE -> "RECHARGE"
      [] action = WAIT -> "WAIT"
      [] action = CALL_FOR_HELP -> "CALL_FOR_HELP"

\* the catalog without CALL_FOR_HELP's ends_scenario key
ACTION_PROPERTIES_NoEnd ==
    [action \in Action |->
        CASE action = HELP_USER ->
               [battery_cost |-> 15, battery_gain |-> 0, time_cost |-> 1,
                urgency_reduction |-> 1, urgency_change |-> 0,
                requires_battery |-> 10, ends_scenario |-> FALSE]
          [] action = RECHARGE ->
               [battery_cost |-> 0, battery_gain |-> 50, time_cost |-> 2,
                urgency_reduction |-> 0, urgency_change |-> 1,
                requires_battery |-> 0, ends_scenario |-> FALSE]
          [] action = WAIT ->
               [battery_cost |-> 2, battery_gain |-> 0, time_cost |-> 1,
                urgency_reduction |-> 0, urgency_change |-> 1,
                requires_battery |-> 0, ends_scenario |-> FALSE]
          [] action = CALL_FOR_HELP ->
               [battery_cost |-> 5, battery_gain |-> 0, time_cost |-> 1,
                urgency_reduction |-> 0, urgency_change |-> 0,
                requires_battery |-> 0, ends_scenario |-> FALSE]]

\* the catalog with HELP_USER costing 20 instead of 15
ACTION_PROPERTIES_HelpCosts20 ==
    [action \in Action |->
        CASE action = HELP_USER ->
               [battery_cost |-> 20, battery_gain |-> 0, time_cost |-> 1,
                urgency_reduction |-> 1, urgency_change |-> 0,
                requires_battery |-> 10, ends_scenario |-> FALSE]
          [] action = RECHARGE ->
               [battery_cost |-> 0, battery_gain |-> 50, time_cost |-> 2,
                urgency_reduction |-> 0, urgency_change |-> 1,
                requires_battery |-> 0, ends_scenario |-> FALSE]
          [] action = WAIT ->
               [battery_cost |-> 2, battery_gain |-> 0, time_cost |-> 1,
                urgency_reduction |-> 0, urgency_change |-> 1,
                requires_battery |-> 0, ends_scenario |-> FALSE]
          [] action = CALL_FOR_HELP ->
               [battery_cost |-> 5, battery_gain |-> 0, time_cost |-> 1,
                urgency_reduction |-> 0, urgency_change |-> 0,
                requires_battery |-> 0, ends_scenario |-> TRUE]]

\* ACTION_PROPERTIES; a key the table does not give carries the default
\* that the readers' props.get(key, default) supply
ACTION_PROPERTIES ==
    [action \in Action |->
        CASE action = HELP_USER ->
               [battery_cost |-> 15, battery_gain |-> 0, time_cost |-> 1,
                urgency_reduction |-> 1, urgency_change |-> 0,
                requires_battery |-> 10, ends_scenario |-> FALSE]
          [] action = RECHARGE ->
               [battery_cost |-> 0, battery_gain |-> 50, time_cost |-> 2,
                urgency_reduction |-> 0, urgency_change |-> 1,
                requires_battery |-> 0, ends_scenario |-> FALSE]
          [] action = WAIT ->
               [battery_cost |-> 2, battery_gain |-> 0, time_cost |-> 1,
                urgency_reduction |-> 0, urgency_change |-> 1,
                requires_battery |-> 0, ends_scenario |-> FALSE]
          [] action = CALL_FOR_HELP ->
               [battery_cost |-> 5, battery_gain |-> 0, time_cost |-> 1,
                urgency_reduction |-> 0, urgency_change |-> 0,
                requires_battery |-> 0, ends_scenario |-> TRUE]]

\* the cost without the gain subtracted
get_battery_cost_Gross(action) ==
    ACTION_PROPERTIES[action].battery_cost

get_battery_cost(action) ==
    ACTION_PROPERTIES[action].battery_cost - ACTION_PROPERTIES[action].battery_gain

requires_battery(action) == ACTION_PROPERTIES[action].requires_battery

(***************************************************************************)
(* core/state.py                                                           *)
(***************************************************************************)
MinBattery == 0
MaxBattery == 100
MinUrgency == 0
MaxUrgency == 3

Tasks == {"idle", "helping", "navigating"}

urgency_labels == <<"NONE", "LOW", "MEDIUM", "HIGH">>

\* a RobotState as the dataclass builds it; distances are kept in tenths of
\* a metre, the precision __str__ prints
RobotState(battery, user_urgency) ==
    [battery |-> battery, user_urgency |-> user_urgency,
     current_task |-> "idle", distance_to_user |-> 50,
     distance_to_charger |-> 100, time_pressure |-> FALSE, time_step |-> 0]

\* f"{d:.1f}" of a distance held in tenths
FormatDistance(d) == ToString(d \div 10) \o "." \o ToString(d % 10)

\* RobotState.__str__
StateStr(s) ==
    "[Step " \o ToString(s.time_step) \o "] Battery=" \o ToString(s.battery)
    \o "%, Task=" \o s.current_task
    \o ", Urgency=" \o urgency_labels[s.user_urgency + 1]
    \o ", Distance to user=" \o FormatDistance(s.distance_to_user) \o "m"

is_battery_critical(s) == s.battery < 20

is_battery_depleted(s) == s.battery <= 0

has_urgent_user(s) == s.user_urgency >= 2

can_help_safely(s) == s.battery > 30 /\ ~is_battery_depleted(s)

\* ActionResult with the dataclass defaults
ActionResult(success, message, battery_change, urgency_change) ==
    [success |-> success, message |-> message,
     battery_change |-> battery_change, urgency_change |-> urgency_change,
     task_change |-> ""]

\* the documented domain of a state (spec section 3)
InDomain(s) ==
    /\ s.battery \in MinBattery..MaxBattery
    /\ s.user_urgency \in MinUrgency..MaxUrgency

(***************************************************************************)
(* core/constraints.py                                                     *)
(***************************************************************************)
\* the checker blocking WAIT on critical urgency alone
is_action_allowed_WaitAnyBattery(action, s) ==
    IF action = HELP_USER /\ is_battery_depleted(s)
    THEN <<FALSE, "Cannot help user: battery depleted">>
    ELSE IF action = HELP_USER /\ s.battery < 10
    THEN <<FALSE, "Cannot help user: battery too low (need 10%)">>
    ELSE IF action = WAIT /\ s.user_urgency >= 3
    THEN <<FALSE, "Cannot wait: user urgency is critical and we can help">>
    ELSE IF action = RECHARGE /\ s.battery >= 95
    THEN <<FALSE, "Already fully charged">>
    ELSE <<TRUE, "Action allowed">>

\* the checker testing the minimum threshold before depletion
is_action_allowed_Reordered(action, s) ==
    IF action = HELP_USER /\ s.battery < 10
    THEN <<FALSE, "Cannot help user: battery too low (need 10%)">>
    ELSE IF action = HELP_USER /\ is_battery_depleted(s)
    THEN <<FALSE, "Cannot help user: battery depleted">>
    ELSE IF action = WAIT /\ s.user_urgency >= 3 /\ s.battery >= 15
    THEN <<FALSE, "Cannot wait: user urgency is critical and we can help">>
    ELSE IF action = RECHARGE /\ s.battery >= 95
    THEN <<FALSE, "Already fully charged">>
    ELSE <<TRUE, "Action allowed">>

\* the rules with one more: no action the battery cannot pay for
is_action_allowed_CostGuard(action, s) ==
    IF action = HELP_USER /\ is_battery_depleted(s)
    THEN <<FALSE, "Cannot help user: battery depleted">>
    ELSE IF action = HELP_USER /\ s.battery < 10
    THEN <<FALSE, "Cannot help user: battery too low (need 10%)">>
    ELSE IF action = WAIT /\ s.user_urgency >= 3 /\ s.battery >= 15
    THEN <<FALSE, "Cannot wait: user urgency is critical and we can help">>
    ELSE IF action = RECHARGE /\ s.battery >= 95
    THEN <<FALSE, "Already fully charged">>
    ELSE IF s.battery < get_battery_cost(action)
    THEN <<FALSE, "Not enough battery">>
    ELSE <<TRUE, "Action allowed">>

is_action_allowed(action, s) ==
    IF action = HELP_USER /\ is_battery_depleted(s)
    THEN <<FALSE, "Cannot help user: battery depleted">>
    ELSE IF action = HELP_USER /\ s.battery < 10
    THEN <<FALSE, "Cannot help user: battery too low (need 10%)">>
    ELSE IF action = WAIT /\ s.user_urgency >= 3 /\ s.battery >= 15
    THEN <<FALSE, "Cannot wait: user urgency is critical and we can help">>
    ELSE IF action = RECHARGE /\ s.battery >= 95
    THEN <<FALSE, "Already fully charged">>
    ELSE <<TRUE, "Action allowed">>

get_constraint_warnings(action, s) ==
    LET w1 == IF action = HELP_USER /\ is_battery_critical(s)
              THEN <<"WARNING: Helping with critically low battery (risk of depletion)">>
              ELSE <<>>
        w2 == IF action = RECHARGE /\ has_urgent_user(s)
              THEN <<"WARNING: Recharging while user needs urgent help">>
              ELSE <<>>
        w3 == IF action = WAIT /\ s.user_urgency >= 2
              THEN <<"WARNING: Waiting while user urgency is high">>
              ELSE <<>>
    IN  w1 \o w2 \o w3

(***************************************************************************)
(* implementation/scoring.py and implementation/decision.py: the           *)
(* placeholder decision layer                                              *)
(***************************************************************************)
\* the naive scores with the sign of the CALL_FOR_HELP score lost
impl_score_action_HelpPositive(action, s) ==
    CASE action = HELP_USER -> IF s.user_urgency > 0 THEN 50 ELSE 10
      [] action = RECHARGE -> IF s.battery < 15 THEN 60 ELSE 0
      [] action = WAIT -> 20
      [] action = CALL_FOR_HELP -> 100

impl_score_action(action, s) ==
    CASE action = HELP_USER -> IF s.user_urgency > 0 THEN 50 ELSE 10
      [] action = RECHARGE -> IF s.battery < 15 THEN 60 ELSE 0
      [] action = WAIT -> 20
      [] action = CALL_FOR_HELP -> -100

\* the actions of list(Action) that is_action_allowed lets through, in order
ValidActions(s) ==
    SelectSeq(ActionList, LAMBDA action : is_action_allowed(action, s)[1])

\* best_action = None, best_score = float('-inf')
NoBest == [best_action |-> "None", best_score |-> 0, is_neg_inf |-> TRUE]

\* score > best_score, with best_score possibly -inf
ScoreAbove(score, best) == best.is_neg_inf \/ score > best.best_score

\* score == best_score, with best_score possibly -inf
ScoreEquals(score, best) == ~best.is_neg_inf /\ score = best.best_score

\* the loop "for action in valid_actions" of the placeholder, from index i
RECURSIVE impl_best(_, _, _, _)
impl_best(valid_actions, i, best, s) ==
    IF i > Len(valid_actions) THEN best
    ELSE LET action == valid_actions[i]
             score == impl_score_action(action, s)
             next == IF ScoreAbove(score, best)
                     THEN [best_action |-> action, best_score |-> score,
                           is_neg_inf |-> FALSE]
                     ELSE best
         IN  impl_best(valid_actions, i + 1, next, s)

\* the placeholder hurrying to the user whenever time_pressure is set
impl_choose_action_Hurried(s) ==
    LET valid_actions == ValidActions(s)
    IN  IF valid_actions = <<>> THEN CALL_FOR_HELP
        ELSE IF s.time_pressure /\ is_action_allowed(HELP_USER, s)[1]
        THEN HELP_USER
        ELSE impl_best(valid_actions, 1, NoBest, s).best_action

impl_choose_action(s) ==
    LET valid_actions == ValidActions(s)
    IN  IF valid_actions = <<>> THEN CALL_FOR_HELP
        ELSE impl_best(valid_actions, 1, NoBest, s).best_action

(***************************************************************************)
(* solutions/solution_scoring.py: the reference scoring.  Every weight is  *)
(* a multiple of 0.05 and every sub-score an integer, so the weights are   *)
(* held in hundredths and score_action is 100 times the source's float.    *)
(***************************************************************************)
\* the safety score with recharging held reasonable only below 60
score_safety_Recharge60(action, s) ==
    50 +
    CASE action = HELP_USER ->
           IF s.battery < 10 THEN -100
           ELSE IF s.battery < 20 THEN -60
           ELSE IF s.battery < 30 THEN -30
           ELSE IF s.battery < 45 THEN -10
           ELSE 20
      [] action = RECHARGE ->
           IF s.battery < 20 THEN 80
           ELSE IF s.battery < 35 THEN 60
           ELSE IF s.battery < 50 THEN 40
           ELSE IF s.battery < 60 THEN 15
           ELSE -10
      [] action = WAIT -> IF s.battery > 50 THEN 10 ELSE -30
      [] action = CALL_FOR_HELP -> 20

score_safety(action, s) ==
    50 +
    CASE action = HELP_USER ->
           IF s.battery < 10 THEN -100
           ELSE IF s.battery < 20 THEN -60
           ELSE IF s.battery < 30 THEN -30
           ELSE IF s.battery < 45 THEN -10
           ELSE 20
      [] action = RECHARGE ->
           IF s.battery < 20 THEN 80
           ELSE IF s.battery < 35 THEN 60
           ELSE IF s.battery < 50 THEN 40
           ELSE IF s.battery < 70 THEN 15
           ELSE -10
      [] action = WAIT -> IF s.battery > 50 THEN 10 ELSE -30
      [] action = CALL_FOR_HELP -> 20

\* 100 * urgency_weight
urgency_weight == <<0, 150, 300, 500>>

\* the helpfulness with waiting valued at 60 when nobody needs help
score_helpfulness_WaitGenerous(action, s) ==
    CASE action = HELP_USER ->
           urgency_weight[s.user_urgency + 1]
           + (IF s.battery > 45 THEN 40 ELSE IF s.battery > 30 THEN 20 ELSE 0)
           + (IF s.user_urgency >= 3 THEN 80
              ELSE IF s.user_urgency >= 2 THEN 40 ELSE 0)
      [] action = RECHARGE ->
           40
           + (IF s.user_urgency >= 3 THEN -100
              ELSE IF s.user_urgency >= 2 THEN -60
              ELSE IF s.user_urgency = 1 THEN -20 ELSE 0)
           + (IF s.battery < 15 THEN 80
              ELSE IF s.battery < 25 THEN 60
              ELSE IF s.battery < 40 THEN 35 ELSE 0)
      [] action = WAIT ->
           IF s.user_urgency = 0 THEN 60
           ELSE IF s.user_urgency = 1 THEN -25
           ELSE IF s.user_urgency = 2 THEN -70
           ELSE -100
      [] action = CALL_FOR_HELP -> IF s.user_urgency >= 2 THEN 40 ELSE -40

score_helpfulness(action, s) ==
    CASE action = HELP_USER ->
           urgency_weight[s.user_urgency + 1]
           + (IF s.battery > 45 THEN 40 ELSE IF s.battery > 30 THEN 20 ELSE 0)
           + (IF s.user_urgency >= 3 THEN 80
              ELSE IF s.user_urgency >= 2 THEN 40 ELSE 0)
      [] action = RECHARGE ->
           40
           + (IF s.user_urgency >= 3 THEN -100
              ELSE IF s.user_urgency >= 2 THEN -60
              ELSE IF s.user_urgency = 1 THEN -20 ELSE 0)
           + (IF s.battery < 15 THEN 80
              ELSE IF s.battery < 25 THEN 60
              ELSE IF s.battery < 40 THEN 35 ELSE 0)
      [] action = WAIT ->
           IF s.user_urgency = 0 THEN 20
           ELSE IF s.user_urgency = 1 THEN -25
           ELSE IF s.user_urgency = 2 THEN -70
           ELSE -100
      [] action = CALL_FOR_HELP -> IF s.user_urgency >= 2 THEN 40 ELSE -40

score_efficiency(action, s) ==
    50 +
    CASE action = HELP_USER ->
           (IF s.user_urgency > 0 THEN 30 ELSE -20)
           + (IF s.battery - get_battery_cost(HELP_USER) < 20 THEN -25 ELSE 0)
      [] action = RECHARGE ->
           IF s.battery < 30 THEN 40
           ELSE IF s.battery < 50 THEN 20
           ELSE IF s.battery < 70 THEN -10
           ELSE -40
      [] action = WAIT ->
           -20 + (IF s.battery < 15 /\ s.user_urgency = 0 THEN 30 ELSE 0)
      [] action = CALL_FOR_HELP ->
           -40 + (IF s.battery < 10 \/ (s.battery < 20 /\ s.user_urgency >= 2)
                  THEN 50 ELSE 0)

\* the weights with the battery contexts tested before the urgency contexts
Weights_BatteryFirst(s) ==
    IF s.battery < 20 THEN <<70, 20, 10>>
    ELSE IF s.battery < 35 THEN <<55, 30, 15>>
    ELSE IF s.user_urgency >= 3 THEN <<20, 70, 10>>
    ELSE IF s.user_urgency >= 2 THEN <<25, 60, 15>>
    ELSE <<25, 55, 20>>

\* the (safety, helpfulness, efficiency) weights, in hundredths
Weights(s) ==
    IF s.user_urgency >= 3 THEN <<20, 70, 10>>
    ELSE IF s.user_urgency >= 2 THEN <<25, 60, 15>>
    ELSE IF s.battery < 20 THEN <<70, 20, 10>>
    ELSE IF s.battery < 35 THEN <<55, 30, 15>>
    ELSE <<25, 55, 20>>

solution_score_action(action, s) ==
    LET weights == Weights(s)
    IN  score_safety(action, s) * weights[1]
        + score_helpfulness(action, s) * weights[2]
        + score_efficiency(action, s) * weights[3]

(***************************************************************************)
(* solutions/solution_decision.py: the reference decision layer            *)
(***************************************************************************)
\* the loop with the comparison inverted: it keeps the lowest score
RECURSIVE solution_best_Lowest(_, _, _, _)
solution_best_Lowest(valid_actions, i, best, s) ==
    IF i > Len(valid_actions) THEN best
    ELSE LET action == valid_actions[i]
             score == solution_score_action(action, s)
             tied == IF ScoreEquals(score, best) /\ action = HELP_USER
                     THEN [best EXCEPT !.best_action = action]
                     ELSE best
             next == IF tied.is_neg_inf \/ score < tied.best_score
                     THEN [best_action |-> action, best_score |-> score,
                           is_neg_inf |-> FALSE]
                     ELSE tied
         IN  solution_best_Lowest(valid_actions, i + 1, next, s)

\* the loop "for action in valid_actions" of choose_by_scoring, from index i
RECURSIVE solution_best(_, _, _, _)
solution_best(valid_actions, i, best, s) ==
    IF i > Len(valid_actions) THEN best
    ELSE LET action == valid_actions[i]
             score == solution_score_action(action, s)
             tied == IF ScoreEquals(score, best) /\ action = HELP_USER
                     THEN [best EXCEPT !.best_action = action]
                     ELSE best
             next == IF ScoreAbove(score, tied)
                     THEN [best_action |-> action, best_score |-> score,
                           is_neg_inf |-> FALSE]
                     ELSE tied
         IN  solution_best(valid_actions, i + 1, next, s)

\* the fallback returning the first valid action without scoring
choose_by_scoring_FirstValid(s) ==
    LET valid_actions == ValidActions(s)
    IN  IF valid_actions = <<>> THEN CALL_FOR_HELP
        ELSE valid_actions[1]

choose_by_scoring(s) ==
    LET valid_actions == ValidActions(s)
    IN  IF valid_actions = <<>> THEN CALL_FOR_HELP
        ELSE solution_best(valid_actions, 1, NoBest, s).best_action

\* the rules with rule 1 helping a critical user at any battery
solution_choose_action_HelpAnyBattery(s) ==
    IF s.user_urgency >= 3
    THEN HELP_USER
    ELSE IF s.battery < 10
    THEN IF s.user_urgency >= 2 THEN CALL_FOR_HELP ELSE RECHARGE
    ELSE IF s.battery < 25
    THEN IF s.user_urgency >= 2 THEN HELP_USER ELSE RECHARGE
    ELSE IF s.user_urgency >= 2 /\ s.battery >= 25 THEN HELP_USER
    ELSE IF 25 <= s.battery /\ s.battery < 45 /\ s.user_urgency >= 1
    THEN HELP_USER
    ELSE IF s.battery < 45 /\ s.user_urgency <= 1 THEN RECHARGE
    ELSE IF s.user_urgency >= 1 /\ s.battery >= 45 THEN HELP_USER
    ELSE choose_by_scoring(s)

\* the rules with rule 2 helping instead of recharging below 10%
solution_choose_action_HelpWhenLow(s) ==
    IF s.user_urgency >= 3
    THEN IF s.battery >= 15 THEN HELP_USER
         ELSE IF s.battery >= 10 THEN HELP_USER
         ELSE CALL_FOR_HELP
    ELSE IF s.battery < 10
    THEN IF s.user_urgency >= 2 THEN CALL_FOR_HELP ELSE HELP_USER
    ELSE IF s.battery < 25
    THEN IF s.user_urgency >= 2 THEN HELP_USER ELSE RECHARGE
    ELSE IF s.user_urgency >= 2 /\ s.battery >= 25 THEN HELP_USER
    ELSE IF 25 <= s.battery /\ s.battery < 45 /\ s.user_urgency >= 1
    THEN HELP_USER
    ELSE IF s.battery < 45 /\ s.user_urgency <= 1 THEN RECHARGE
    ELSE IF s.user_urgency >= 1 /\ s.battery >= 45 THEN HELP_USER
    ELSE choose_by_scoring(s)

\* the rules with rule 1 helping a critical user from 15% only
solution_choose_action_HelpFrom15(s) ==
    IF s.user_urgency >= 3
    THEN IF s.battery >= 15 THEN HELP_USER
         ELSE CALL_FOR_HELP
    ELSE IF s.battery < 10
    THEN IF s.user_urgency >= 2 THEN CALL_FOR_HELP ELSE RECHARGE
    ELSE IF s.battery < 25
    THEN IF s.user_urgency >= 2 THEN HELP_USER ELSE RECHARGE
    ELSE IF s.user_urgency >= 2 /\ s.battery >= 25 THEN HELP_USER
    ELSE IF 25 <= s.battery /\ s.battery < 45 /\ s.user_urgency >= 1
    THEN HELP_USER
    ELSE IF s.battery < 45 /\ s.user_urgency <= 1 THEN RECHARGE
    ELSE IF s.user_urgency >= 1 /\ s.battery >= 45 THEN HELP_USER
    ELSE choose_by_scoring(s)

\* the rules without rule 2
solution_choose_action_NoRule2(s) ==
    IF s.user_urgency >= 3
    THEN IF s.battery >= 15 THEN HELP_USER
         ELSE IF s.battery >= 10 THEN HELP_USER
         ELSE CALL_FOR_HELP
    ELSE IF s.battery < 25
    THEN IF s.user_urgency >= 2 THEN HELP_USER ELSE RECHARGE
    ELSE IF s.user_urgency >= 2 /\ s.battery >= 25 THEN HELP_USER
    ELSE IF 25 <= s.battery /\ s.battery < 45 /\ s.user_urgency >= 1
    THEN HELP_USER
    ELSE IF s.battery < 45 /\ s.user_urgency <= 1 THEN RECHARGE
    ELSE IF s.user_urgency >= 1 /\ s.battery >= 45 THEN HELP_USER
    ELSE choose_by_scoring(s)

\* rule 2 giving up for any waiting user, not only from urgency 2
solution_choose_action_Rule2AnyUrgency(s) ==
    IF s.user_urgency >= 3
    THEN IF s.battery >= 15 THEN HELP_USER
         ELSE IF s.battery >= 10 THEN HELP_USER
         ELSE CALL_FOR_HELP
    ELSE IF s.battery < 10
    THEN IF s.user_urgency >= 1 THEN CALL_FOR_HELP ELSE RECHARGE
    ELSE IF s.battery < 25
    THEN IF s.user_urgency >= 2 THEN HELP_USER ELSE RECHARGE
    ELSE IF s.user_urgency >= 2 /\ s.battery >= 25 THEN HELP_USER
    ELSE IF 25 <= s.battery /\ s.battery < 45 /\ s.user_urgency >= 1
    THEN HELP_USER
    ELSE IF s.battery < 45 /\ s.user_urgency <= 1 THEN RECHARGE
    ELSE IF s.user_urgency >= 1 /\ s.battery >= 45 THEN HELP_USER
    ELSE choose_by_scoring(s)

\* rule 3 giving up, instead of helping once, from urgency 2
solution_choose_action_Rule3GivesUp(s) ==
    IF s.user_urgency >= 3
    THEN IF s.battery >= 15 THEN HELP_USER
         ELSE IF s.battery >= 10 THEN HELP_USER
         ELSE CALL_FOR_HELP
    ELSE IF s.battery < 10
    THEN IF s.user_urgency >= 2 THEN CALL_FOR_HELP ELSE RECHARGE
    ELSE IF s.battery < 25
    THEN IF s.user_urgency >= 2 THEN CALL_FOR_HELP ELSE RECHARGE
    ELSE IF s.user_urgency >= 2 /\ s.battery >= 25 THEN HELP_USER
    ELSE IF 25 <= s.battery /\ s.battery < 45 /\ s.user_urgency >= 1
    THEN HELP_USER
    ELSE IF s.battery < 45 /\ s.user_urgency <= 1 THEN RECHARGE
    ELSE IF s.user_urgency >= 1 /\ s.battery >= 45 THEN HELP_USER
    ELSE choose_by_scoring(s)

solution_choose_action(s) ==
    IF s.user_urgency >= 3
    THEN IF s.battery >= 15 THEN HELP_USER
         ELSE IF s.battery >= 10 THEN HELP_USER
         ELSE CALL_FOR_HELP
    ELSE IF s.battery < 10
    THEN IF s.user_urgency >= 2 THEN CALL_FOR_HELP ELSE RECHARGE
    ELSE IF s.battery < 25
    THEN IF s.user_urgency >= 2 THEN HELP_USER ELSE RECHARGE
    ELSE IF s.user_urgency >= 2 /\ s.battery >= 25 THEN HELP_USER
    ELSE IF 25 <= s.battery /\ s.battery < 45 /\ s.user_urgency >= 1
    THEN HELP_USER
    ELSE IF s.battery < 45 /\ s.user_urgency <= 1 THEN RECHARGE
    ELSE IF s.user_urgency >= 1 /\ s.battery >= 45 THEN HELP_USER
    ELSE choose_by_scoring(s)

\* the decision functions a driver run is given
DecisionFns == {"implementation", "solution"}

\* decision_fn(sim.state)
Decide(decision_fn, s) ==
    IF decision_fn = "solution" THEN solution_choose_action(s)
    ELSE impl_choose_action(s)

(***************************************************************************)
(* core/simulator.py                                                       *)
(***************************************************************************)
Max(a, b) == IF a >= b THEN a ELSE b

Min(a, b) == IF a <= b THEN a ELSE b

\* each effect returns the mutated state and the ActionResult
\* HELP_USER refusing to act below the catalog's requires_battery
apply_help_user_Guarded(s, props) ==
    IF s.battery < props.requires_battery
    THEN [state |-> s,
          result |-> ActionResult(FALSE, "Cannot help user", 0, 0)]
    ELSE LET old_urgency == s.user_urgency
             new_urgency == Max(0, s.user_urgency - props.urgency_reduction)
             message == IF new_urgency = 0
                        THEN "Helped user successfully! (urgency "
                             \o ToString(old_urgency) \o "->0)"
                        ELSE "Helped user (urgency " \o ToString(old_urgency)
                             \o "->" \o ToString(new_urgency) \o ")"
         IN  [state |-> [s EXCEPT !.battery = s.battery - props.battery_cost,
                                  !.user_urgency = new_urgency,
                                  !.current_task = "helping"],
              result |-> ActionResult(TRUE, message, -props.battery_cost,
                                      -props.urgency_reduction)]

apply_help_user(s, props) ==
    LET old_urgency == s.user_urgency
        new_urgency == Max(0, s.user_urgency - props.urgency_reduction)
        message == IF new_urgency = 0
                   THEN "Helped user successfully! (urgency "
                        \o ToString(old_urgency) \o "->0)"
                   ELSE "Helped user (urgency " \o ToString(old_urgency)
                        \o "->" \o ToString(new_urgency) \o ")"
    IN  [state |-> [s EXCEPT !.battery = s.battery - props.battery_cost,
                             !.user_urgency = new_urgency,
                             !.current_task = "helping"],
         result |-> ActionResult(TRUE, message, -props.battery_cost,
                                 -props.urgency_reduction)]

\* RECHARGE applying the catalog's urgency_change while charging
apply_recharge_UrgencyUp(s, props) ==
    LET old_battery == s.battery
        new_battery == s.battery + props.battery_gain
        message == "Recharged battery (" \o ToString(old_battery) \o "->"
                   \o ToString(new_battery) \o "%)"
    IN  [state |-> [s EXCEPT !.battery = new_battery,
                             !.user_urgency = @ + props.urgency_change,
                             !.current_task = "navigating"],
         result |-> ActionResult(TRUE, message, props.battery_gain,
                                 props.urgency_change)]

\* RECHARGE recording the arrival at the charging station
apply_recharge_AtCharger(s, props) ==
    LET old_battery == s.battery
        new_battery == s.battery + props.battery_gain
        message == "Recharged battery (" \o ToString(old_battery) \o "->"
                   \o ToString(new_battery) \o "%)"
    IN  [state |-> [s EXCEPT !.battery = new_battery,
                             !.current_task = "navigating",
                             !.distance_to_charger = 0],
         result |-> ActionResult(TRUE, message, props.battery_gain, 0)]

apply_recharge(s, props) ==
    LET old_battery == s.battery
        new_battery == s.battery + props.battery_gain
        message == "Recharged battery (" \o ToString(old_battery) \o "->"
                   \o ToString(new_battery) \o "%)"
    IN  [state |-> [s EXCEPT !.battery = new_battery,
                             !.current_task = "navigating"],
         result |-> ActionResult(TRUE, message, props.battery_gain, 0)]

\* WAIT raising the urgency only while it is below medium
apply_wait_LowOnly(s, props) ==
    LET urgency_increased == s.user_urgency < 2
        new_urgency == IF urgency_increased THEN s.user_urgency + 1
                       ELSE s.user_urgency
        message == IF urgency_increased
                   THEN "Waited and observed [User urgency increased to "
                        \o ToString(new_urgency) \o "!]"
                   ELSE "Waited and observed"
    IN  [state |-> [s EXCEPT !.battery = s.battery - props.battery_cost,
                             !.user_urgency = new_urgency,
                             !.current_task = "idle"],
         result |-> ActionResult(TRUE, message, -props.battery_cost, 0)]

apply_wait(s, props) ==
    LET urgency_increased == s.user_urgency < 3
        new_urgency == IF urgency_increased THEN s.user_urgency + 1
                       ELSE s.user_urgency
        message == IF urgency_increased
                   THEN "Waited and observed [User urgency increased to "
                        \o ToString(new_urgency) \o "!]"
                   ELSE "Waited and observed"
    IN  [state |-> [s EXCEPT !.battery = s.battery - props.battery_cost,
                             !.user_urgency = new_urgency,
                             !.current_task = "idle"],
         result |-> ActionResult(TRUE, message, -props.battery_cost, 0)]

apply_call_for_help(s, props) ==
    [state |-> [s EXCEPT !.battery = s.battery - props.battery_cost,
                         !.current_task = "idle"],
     result |-> ActionResult(TRUE, "Called for human assistance (scenario ended)",
                             -props.battery_cost, 0)]

\* the dispatch on the action type
ApplyEffect(action, s, props) ==
    CASE action = HELP_USER -> apply_help_user(s, props)
      [] action = RECHARGE -> apply_recharge(s, props)
      [] action = WAIT -> apply_wait(s, props)
      [] action = CALL_FOR_HELP -> apply_call_for_help(s, props)

\* the clamp without the lower bound of the battery
Clamp_NoFloor(s) ==
    [s EXCEPT !.battery = Min(100, s.battery),
              !.user_urgency = Max(0, Min(3, s.user_urgency))]

\* the clamp of battery and urgency
Clamp(s) ==
    [s EXCEPT !.battery = Max(0, Min(100, s.battery)),
              !.user_urgency = Max(0, Min(3, s.user_urgency))]

\* apply_action also ending the scenario when the user is fully helped or
\* the battery is empty
SimApply_EndsOnTerminal(sim, action) ==
    LET props == ACTION_PROPERTIES[action]
        eff == ApplyEffect(action, sim.state, props)
        timed == [eff.state EXCEPT !.time_step = @ + props.time_cost]
        clamped == Clamp(timed)
        ended1 == IF props.ends_scenario \/ clamped.user_urgency = 0
                     \/ is_battery_depleted(clamped)
                  THEN TRUE ELSE sim.scenario_ended
        timeout == clamped.time_step >= sim.max_steps
        ended2 == IF timeout THEN TRUE ELSE ended1
        message == IF timeout THEN eff.result.message \o " [TIME LIMIT REACHED]"
                   ELSE eff.result.message
        res == [eff.result EXCEPT !.message = message]
        entry == [step |-> clamped.time_step, action |-> action,
                  state |-> StateStr(clamped), result |-> message]
    IN  [state |-> clamped, max_steps |-> sim.max_steps,
         history |-> Append(sim.history, entry),
         scenario_ended |-> ended2, result |-> res]

\* apply_action reaching the time limit only past max_steps
SimApply_TimeoutPast(sim, action) ==
    LET props == ACTION_PROPERTIES[action]
        eff == ApplyEffect(action, sim.state, props)
        timed == [eff.state EXCEPT !.time_step = @ + props.time_cost]
        clamped == Clamp(timed)
        ended1 == IF props.ends_scenario THEN TRUE ELSE sim.scenario_ended
        timeout == clamped.time_step > sim.max_steps
        ended2 == IF timeout THEN TRUE ELSE ended1
        message == IF timeout THEN eff.result.message \o " [TIME LIMIT REACHED]"
                   ELSE eff.result.message
        res == [eff.result EXCEPT !.message = message]
        entry == [step |-> clamped.time_step, action |-> action,
                  state |-> StateStr(clamped), result |-> message]
    IN  [state |-> clamped, max_steps |-> sim.max_steps,
         history |-> Append(sim.history, entry),
         scenario_ended |-> ended2, result |-> res]

\* apply_action taking the history snapshot before the clamp
SimApply_SnapshotBeforeClamp(sim, action) ==
    LET props == ACTION_PROPERTIES[action]
        eff == ApplyEffect(action, sim.state, props)
        timed == [eff.state EXCEPT !.time_step = @ + props.time_cost]
        clamped == Clamp(timed)
        ended1 == IF props.ends_scenario THEN TRUE ELSE sim.scenario_ended
        timeout == clamped.time_step >= sim.max_steps
        ended2 == IF timeout THEN TRUE ELSE ended1
        message == IF timeout THEN eff.result.message \o " [TIME LIMIT REACHED]"
                   ELSE eff.result.message
        res == [eff.result EXCEPT !.message = message]
        entry == [step |-> timed.time_step, action |-> action,
                  state |-> StateStr(timed), result |-> message]
    IN  [state |-> clamped, max_steps |-> sim.max_steps,
         history |-> Append(sim.history, entry),
         scenario_ended |-> ended2, result |-> res]

\* apply_action advancing the time by the default cost of one step
SimApply_UnitTime(sim, action) ==
    LET props == ACTION_PROPERTIES[action]
        eff == ApplyEffect(action, sim.state, props)
        timed == [eff.state EXCEPT !.time_step = @ + 1]
        clamped == Clamp(timed)
        ended1 == IF props.ends_scenario THEN TRUE ELSE sim.scenario_ended
        timeout == clamped.time_step >= sim.max_steps
        ended2 == IF timeout THEN TRUE ELSE ended1
        message == IF timeout THEN eff.result.message \o " [TIME LIMIT REACHED]"
                   ELSE eff.result.message
        res == [eff.result EXCEPT !.message = message]
        entry == [step |-> clamped.time_step, action |-> action,
                  state |-> StateStr(clamped), result |-> message]
    IN  [state |-> clamped, max_steps |-> sim.max_steps,
         history |-> Append(sim.history, entry),
         scenario_ended |-> ended2, result |-> res]

\* the whole of RobotSimulator.apply_action on a simulator
\* sim = [state, max_steps, history, scenario_ended]; returns the simulator
\* after the call and the ActionResult
SimApply(sim, action) ==
    LET props == ACTION_PROPERTIES[action]
        eff == ApplyEffect(action, sim.state, props)
        timed == [eff.state EXCEPT !.time_step = @ + props.time_cost]
        clamped == Clamp(timed)
        ended1 == IF props.ends_scenario THEN TRUE ELSE sim.scenario_ended
        timeout == clamped.time_step >= sim.max_steps
        ended2 == IF timeout THEN TRUE ELSE ended1
        message == IF timeout THEN eff.result.message \o " [TIME LIMIT REACHED]"
                   ELSE eff.result.message
        res == [eff.result EXCEPT !.message = message]
        entry == [step |-> clamped.time_step, action |-> action,
                  state |-> StateStr(clamped), result |-> message]
    IN  [state |-> clamped, max_steps |-> sim.max_steps,
         history |-> Append(sim.history, entry),
         scenario_ended |-> ended2, result |-> res]

\* get_summary reporting depletion only below zero
get_summary_DepletedBelowZero(sim) ==
    [total_steps |-> sim.state.time_step,
     final_battery |-> sim.state.battery,
     final_urgency |-> sim.state.user_urgency,
     user_helped |-> sim.state.user_urgency = 0,
     battery_depleted |-> sim.state.battery < 0]

\* RobotSimulator.get_summary
get_summary(sim) ==
    [total_steps |-> sim.state.time_step,
     final_battery |-> sim.state.battery,
     final_urgency |-> sim.state.user_urgency,
     user_helped |-> sim.state.user_urgency = 0,
     battery_depleted |-> is_battery_depleted(sim.state)]

(***************************************************************************)
(* Program state                                                           *)
(***************************************************************************)
VARIABLES
    state,           \* RobotSimulator.state, the RobotState mutated in place
    max_steps,       \* RobotSimulator.max_steps
    history,         \* RobotSimulator.history
    scenario_ended,  \* RobotSimulator.scenario_ended
    result,          \* the ActionResult of the last apply_action call
    last_query,      \* the last call of a query function: arguments and return
    driver           \* the locals of the driver loop

simVars == <<state, max_steps, history, scenario_ended, result>>

vars == <<state, max_steps, history, scenario_ended, result, last_query, driver>>

\* the simulator object
Sim ==
    [state |-> state, max_steps |-> max_steps, history |-> history,
     scenario_ended |-> scenario_ended]

NoResult == ActionResult(TRUE, "", 0, 0)

NoQuery == [fn |-> "none"]

NoDriver == [pc |-> "none"]

\* initial values outside the documented domain, which the constructor
\* accepts without validation
OutOfDomainBattery == {-7, 130}

OutOfDomainUrgency == {-1, 5}

InitTimeSteps == {0, 3}

InitMaxSteps == {0, 2, 5}

\* RobotSimulator.__init__ on a caller-built RobotState
SimInit(s, ms) ==
    /\ state = s
    /\ max_steps = ms
    /\ history = <<>>
    /\ scenario_ended = FALSE
    /\ result = NoResult

Init ==
    /\ \E b \in (MinBattery..MaxBattery) \cup OutOfDomainBattery,
          u \in (MinUrgency..MaxUrgency) \cup OutOfDomainUrgency,
          t \in InitTimeSteps, ms \in InitMaxSteps :
            SimInit([RobotState(b, u) EXCEPT !.time_step = t], ms)
    /\ last_query = NoQuery
    /\ driver = NoDriver

\* sim.apply_action(action), called directly with no constraint check
apply_action(action) ==
    /\ Len(history) < MaxCalls
    /\ LET after == SimApply(Sim, action)
       IN  /\ state' = after.state
           /\ history' = after.history
           /\ scenario_ended' = after.scenario_ended
           /\ result' = after.result
    /\ UNCHANGED <<max_steps, last_query, driver>>

Next == \E action \in Action : apply_action(action)

Spec == Init /\ [][Next]_vars

(***************************************************************************)
(* The query functions, called on their own by a client (spec section 6)   *)
(***************************************************************************)
\* a caller-built state of the documented domain, not yet acted on
QueryInit ==
    /\ \E b \in MinBattery..MaxBattery, u \in MinUrgency..MaxUrgency,
          ms \in InitMaxSteps :
            SimInit(RobotState(b, u), ms)
    /\ last_query = NoQuery
    /\ driver = NoDriver

call_is_action_allowed(action) ==
    /\ last_query' = [fn |-> "is_action_allowed", action |-> action,
                      state |-> state, ret |-> is_action_allowed(action, state)]
    /\ UNCHANGED <<simVars, driver>>

call_get_constraint_warnings(action) ==
    /\ last_query' = [fn |-> "get_constraint_warnings", action |-> action,
                      state |-> state, ret |-> get_constraint_warnings(action, state)]
    /\ UNCHANGED <<simVars, driver>>

\* choose_action marking the state it was handed with the task it picked
call_choose_action_Simulating(decision_fn) ==
    /\ last_query' = [fn |-> "choose_action", decision_fn |-> decision_fn,
                      state |-> state, ret |-> Decide(decision_fn, state)]
    /\ state' = [state EXCEPT !.current_task =
                    IF Decide(decision_fn, state) = HELP_USER
                    THEN "helping" ELSE "navigating"]
    /\ UNCHANGED <<max_steps, history, scenario_ended, result, driver>>

call_choose_action(decision_fn) ==
    /\ last_query' = [fn |-> "choose_action", decision_fn |-> decision_fn,
                      state |-> state, ret |-> Decide(decision_fn, state)]
    /\ UNCHANGED <<simVars, driver>>

QueryNext ==
    \/ \E action \in Action : call_is_action_allowed(action)
    \/ \E action \in Action : call_get_constraint_warnings(action)
    \/ \E decision_fn \in DecisionFns : call_choose_action(decision_fn)

QuerySpec == QueryInit /\ [][QueryNext]_vars

(***************************************************************************)
(* The reference scoring functions, called on their own                    *)
(***************************************************************************)
call_choose_by_scoring ==
    /\ last_query' = [fn |-> "choose_by_scoring", state |-> state,
                      ret |-> choose_by_scoring(state)]
    /\ UNCHANGED <<simVars, driver>>

\* score_action(action, state); the record keeps the weights the call used
call_score_action(action) ==
    /\ last_query' = [fn |-> "score_action", action |-> action,
                      state |-> state, weights |-> Weights(state),
                      ret |-> solution_score_action(action, state)]
    /\ UNCHANGED <<simVars, driver>>

ScoringNext ==
    \/ call_choose_by_scoring
    \/ \E action \in Action : call_score_action(action)

ScoringSpec == QueryInit /\ [][ScoringNext]_vars

(***************************************************************************)
(* The driver loop: run_scenario (main.py, solutions/solution.py) and      *)
(* run_scenario_with_implementation (tests/test_comparison.py)             *)
(***************************************************************************)
\* the step budgets of the scenarios the specification names (section 8)
ScenarioBudgets == {6, 8}

\* sim = RobotSimulator(initial_state, max_steps); step = 0
DriverInit ==
    /\ \E b \in MinBattery..MaxBattery, u \in MinUrgency..MaxUrgency,
          ms \in (0..MaxBudget) \cup ScenarioBudgets,
          decision_fn \in DecisionFns :
            /\ SimInit(RobotState(b, u), ms)
            /\ driver = [pc |-> "loop", step |-> 0,
                         decision_fn |-> decision_fn,
                         initial_battery |-> b, initial_urgency |-> u,
                         chosen_action |-> "None", allowed |-> TRUE,
                         reason |-> "", warnings |-> <<>>,
                         summary |-> "None"]
    /\ last_query = NoQuery

\* the same pass, deciding and checking on a copy of the initial state
\* instead of the state the simulator mutates
DriverIterate_StaleState ==
    /\ driver.pc = "loop"
    /\ ~scenario_ended /\ driver.step < max_steps
    /\ LET initial_state == [state EXCEPT
                                 !.battery = driver.initial_battery,
                                 !.user_urgency = driver.initial_urgency]
           decided == Decide(driver.decision_fn, initial_state)
           check == is_action_allowed(decided, initial_state)
           warnings == get_constraint_warnings(decided, initial_state)
           chosen_action == IF ~check[1] THEN CALL_FOR_HELP ELSE decided
           after == SimApply(Sim, chosen_action)
           break == after.state.user_urgency = 0
                    \/ is_battery_depleted(after.state)
       IN  /\ state' = after.state
           /\ history' = after.history
           /\ scenario_ended' = after.scenario_ended
           /\ result' = after.result
           /\ driver' = [driver EXCEPT !.step = @ + 1,
                                       !.chosen_action = chosen_action,
                                       !.allowed = check[1],
                                       !.reason = check[2],
                                       !.warnings = warnings,
                                       !.pc = IF break THEN "summary" ELSE "loop"]
    /\ UNCHANGED <<max_steps, last_query>>

\* the same pass, treating a warning as a block
DriverIterate_WarningBlocks ==
    /\ driver.pc = "loop"
    /\ ~scenario_ended /\ driver.step < max_steps
    /\ LET decided == Decide(driver.decision_fn, state)
           check == is_action_allowed(decided, state)
           warnings == get_constraint_warnings(decided, state)
           chosen_action == IF ~check[1] \/ warnings # <<>>
                            THEN CALL_FOR_HELP ELSE decided
           after == SimApply(Sim, chosen_action)
           break == after.state.user_urgency = 0
                    \/ is_battery_depleted(after.state)
       IN  /\ state' = after.state
           /\ history' = after.history
           /\ scenario_ended' = after.scenario_ended
           /\ result' = after.result
           /\ driver' = [driver EXCEPT !.step = @ + 1,
                                       !.chosen_action = chosen_action,
                                       !.allowed = check[1],
                                       !.reason = check[2],
                                       !.warnings = warnings,
                                       !.pc = IF break THEN "summary" ELSE "loop"]
    /\ UNCHANGED <<max_steps, last_query>>

\* the same pass on an engine whose RECHARGE, as the catalog's
\* urgency_change entry describes it, may or may not raise the urgency
DriverIterate_RandomRecharge ==
    /\ driver.pc = "loop"
    /\ ~scenario_ended /\ driver.step < max_steps
    /\ \E raised \in BOOLEAN :
        LET decided == Decide(driver.decision_fn, state)
            check == is_action_allowed(decided, state)
            warnings == get_constraint_warnings(decided, state)
            chosen_action == IF ~check[1] THEN CALL_FOR_HELP ELSE decided
            applied == SimApply(Sim, chosen_action)
            after == IF raised /\ chosen_action = RECHARGE
                     THEN [applied EXCEPT !.state.user_urgency = Min(3, @ + 1)]
                     ELSE applied
            break == after.state.user_urgency = 0
                     \/ is_battery_depleted(after.state)
        IN  /\ state' = after.state
            /\ history' = after.history
            /\ scenario_ended' = after.scenario_ended
            /\ result' = after.result
            /\ driver' = [driver EXCEPT !.step = @ + 1,
                                        !.chosen_action = chosen_action,
                                        !.allowed = check[1],
                                        !.reason = check[2],
                                        !.warnings = warnings,
                                        !.pc = IF break THEN "summary" ELSE "loop"]
    /\ UNCHANGED <<max_steps, last_query>>

\* one pass through the body of the while loop
DriverIterate ==
    /\ driver.pc = "loop"
    /\ ~scenario_ended /\ driver.step < max_steps
    /\ LET decided == Decide(driver.decision_fn, state)
           check == is_action_allowed(decided, state)
           warnings == get_constraint_warnings(decided, state)
           chosen_action == IF ~check[1] THEN CALL_FOR_HELP ELSE decided
           after == SimApply(Sim, chosen_action)
           break == after.state.user_urgency = 0
                    \/ is_battery_depleted(after.state)
       IN  /\ state' = after.state
           /\ history' = after.history
           /\ scenario_ended' = after.scenario_ended
           /\ result' = after.result
           /\ driver' = [driver EXCEPT !.step = @ + 1,
                                       !.chosen_action = chosen_action,
                                       !.allowed = check[1],
                                       !.reason = check[2],
                                       !.warnings = warnings,
                                       !.pc = IF break THEN "summary" ELSE "loop"]
    /\ UNCHANGED <<max_steps, last_query>>

\* the while condition fails
DriverLoopExit ==
    /\ driver.pc = "loop"
    /\ ~(~scenario_ended /\ driver.step < max_steps)
    /\ driver' = [driver EXCEPT !.pc = "summary"]
    /\ UNCHANGED <<simVars, last_query>>

\* summary = sim.get_summary()
DriverSummary ==
    /\ driver.pc = "summary"
    /\ driver' = [driver EXCEPT !.summary = get_summary(Sim), !.pc = "done"]
    /\ UNCHANGED <<simVars, last_query>>

DriverNext == DriverIterate \/ DriverLoopExit \/ DriverSummary

DriverSpec == DriverInit /\ [][DriverNext]_vars

(***************************************************************************)
(* Two driver runs side by side.  The first is the driver above; the       *)
(* second, driver.twin, is a run record advanced by the same loop          *)
(***************************************************************************)
\* one step of the driver on a run record: a pass of the while loop, the
\* exit of the loop, or the call of get_summary
RunStep(run, decision_fn) ==
    IF run.pc = "loop"
    THEN IF ~run.sim.scenario_ended /\ run.step < run.sim.max_steps
         THEN LET decided == Decide(decision_fn, run.sim.state)
                  check == is_action_allowed(decided, run.sim.state)
                  chosen_action == IF ~check[1] THEN CALL_FOR_HELP ELSE decided
                  after == SimApply(run.sim, chosen_action)
                  break == after.state.user_urgency = 0
                           \/ is_battery_depleted(after.state)
              IN  [run EXCEPT !.sim = [state |-> after.state,
                                       max_steps |-> after.max_steps,
                                       history |-> after.history,
                                       scenario_ended |-> after.scenario_ended],
                              !.step = @ + 1,
                              !.pc = IF break THEN "summary" ELSE "loop"]
         ELSE [run EXCEPT !.pc = "summary"]
    ELSE [run EXCEPT !.summary = get_summary(run.sim), !.pc = "done"]

\* both runs are given equal initial states, the same max_steps and the
\* same decision function
TwinInit ==
    /\ \E b \in MinBattery..MaxBattery, u \in MinUrgency..MaxUrgency,
          ms \in 0..MaxBudget, decision_fn \in DecisionFns :
            /\ SimInit(RobotState(b, u), ms)
            /\ driver = [pc |-> "loop", step |-> 0,
                         decision_fn |-> decision_fn,
                         initial_battery |-> b, initial_urgency |-> u,
                         chosen_action |-> "None", allowed |-> TRUE,
                         reason |-> "", warnings |-> <<>>,
                         summary |-> "None",
                         twin |-> [sim |-> [state |-> RobotState(b, u),
                                            max_steps |-> ms,
                                            history |-> <<>>,
                                            scenario_ended |-> FALSE],
                                   step |-> 0, pc |-> "loop",
                                   summary |-> "None"]]
    /\ last_query = NoQuery

TwinStep ==
    /\ driver.twin.pc # "done"
    /\ driver' = [driver EXCEPT !.twin = RunStep(@, driver.decision_fn)]
    /\ UNCHANGED <<simVars, last_query>>

TwinNext == DriverNext \/ TwinStep

TwinSpec == TwinInit /\ [][TwinNext]_vars

\* sim.get_summary() called by the client at any point of a driver run
call_get_summary ==
    /\ last_query' = [fn |-> "get_summary", state |-> state,
                      ret |-> get_summary(Sim)]
    /\ UNCHANGED <<simVars, driver>>

SummaryNext == DriverNext \/ call_get_summary

SummarySpec == DriverInit /\ [][SummaryNext]_vars

\* a driver run whose client also calls the query functions between passes
ClientNext == DriverNext \/ QueryNext

ClientSpec == DriverInit /\ [][ClientNext]_vars

(***************************************************************************)
(* The queries on states whose descriptive fields take the values the      *)
(* scenarios and the engine give them                                      *)
(***************************************************************************)
\* (distance_to_user, distance_to_charger) of the dataclass defaults and of
\* the "Low Battery, Urgent User" scenario, in tenths of a metre
ScenarioDistances == {<<50, 100>>, <<30, 150>>}

DescriptiveInit ==
    /\ \E b \in MinBattery..MaxBattery, u \in MinUrgency..MaxUrgency,
          task \in Tasks, d \in ScenarioDistances, tp \in BOOLEAN,
          t \in InitTimeSteps, ms \in ScenarioBudgets :
            SimInit([RobotState(b, u) EXCEPT !.current_task = task,
                                             !.distance_to_user = d[1],
                                             !.distance_to_charger = d[2],
                                             !.time_pressure = tp,
                                             !.time_step = t], ms)
    /\ last_query = NoQuery
    /\ driver = NoDriver

DescriptiveSpec == DescriptiveInit /\ [][QueryNext]_vars

(***************************************************************************)
(* The engine called directly on the states a scenario starts from:        *)
(* time_step 0, task "idle", any in-domain battery and urgency             *)
(***************************************************************************)
\* (distance_to_user, distance_to_charger, time_pressure) of the dataclass
\* defaults and of the "Low Battery, Urgent User" scenario
ScenarioFields == {<<50, 100, FALSE>>, <<30, 150, TRUE>>}

EngineInit ==
    /\ \E b \in MinBattery..MaxBattery, u \in MinUrgency..MaxUrgency,
          f \in ScenarioFields, ms \in InitMaxSteps :
            SimInit([RobotState(b, u) EXCEPT !.distance_to_user = f[1],
                                             !.distance_to_charger = f[2],
                                             !.time_pressure = f[3]], ms)
    /\ last_query = NoQuery
    /\ driver = NoDriver

EngineSpec == EngineInit /\ [][Next]_vars

(***************************************************************************)
(* The driver loop given an arbitrary decision function: any function of   *)
(* the state into Action, so each pass may be handed any of the actions    *)
(***************************************************************************)
\* the pass applying the decision without the substitution of a blocked one
DriverPass_NoSubstitute(decided) ==
    /\ driver.pc = "loop"
    /\ ~scenario_ended /\ driver.step < max_steps
    /\ LET check == is_action_allowed(decided, state)
           warnings == get_constraint_warnings(decided, state)
           chosen_action == decided
           after == SimApply(Sim, chosen_action)
           break == after.state.user_urgency = 0
                    \/ is_battery_depleted(after.state)
       IN  /\ state' = after.state
           /\ history' = after.history
           /\ scenario_ended' = after.scenario_ended
           /\ result' = after.result
           /\ driver' = [driver EXCEPT !.step = @ + 1,
                                       !.chosen_action = chosen_action,
                                       !.allowed = check[1],
                                       !.reason = check[2],
                                       !.warnings = warnings,
                                       !.pc = IF break THEN "summary" ELSE "loop"]
    /\ UNCHANGED <<max_steps, last_query>>

\* one pass through the body of the while loop when decision_fn(sim.state)
\* returns decided
\* the pass of a loop that tests only scenario_ended, not the step count
DriverPass_NoBudget(decided) ==
    /\ driver.pc = "loop"
    /\ ~scenario_ended
    /\ LET check == is_action_allowed(decided, state)
           warnings == get_constraint_warnings(decided, state)
           chosen_action == IF ~check[1] THEN CALL_FOR_HELP ELSE decided
           after == SimApply(Sim, chosen_action)
           break == after.state.user_urgency = 0
                    \/ is_battery_depleted(after.state)
       IN  /\ state' = after.state
           /\ history' = after.history
           /\ scenario_ended' = after.scenario_ended
           /\ result' = after.result
           /\ driver' = [driver EXCEPT !.step = @ + 1,
                                       !.chosen_action = chosen_action,
                                       !.allowed = check[1],
                                       !.reason = check[2],
                                       !.warnings = warnings,
                                       !.pc = IF break THEN "summary" ELSE "loop"]
    /\ UNCHANGED <<max_steps, last_query>>

\* the same pass with the completion checks made before the action: a run
\* whose state already has urgency 0 or battery 0 stops without acting
DriverPass_CheckFirst(decided) ==
    /\ driver.pc = "loop"
    /\ ~scenario_ended /\ driver.step < max_steps
    /\ IF state.user_urgency = 0 \/ is_battery_depleted(state)
       THEN /\ driver' = [driver EXCEPT !.step = @ + 1, !.pc = "summary"]
            /\ UNCHANGED <<state, history, scenario_ended, result>>
       ELSE \E check \in {is_action_allowed(decided, state)},
               warnings \in {get_constraint_warnings(decided, state)} :
            \E chosen_action \in {IF ~check[1] THEN CALL_FOR_HELP ELSE decided} :
            \E after \in {SimApply(Sim, chosen_action)} :
               /\ state' = after.state
               /\ history' = after.history
               /\ scenario_ended' = after.scenario_ended
               /\ result' = after.result
               /\ driver' = [driver EXCEPT !.step = @ + 1,
                                           !.chosen_action = chosen_action,
                                           !.allowed = check[1],
                                           !.reason = check[2],
                                           !.warnings = warnings]
    /\ UNCHANGED <<max_steps, last_query>>

\* the locals of the pass are bound once, in the order the loop assigns them
DriverPass(decided) ==
    /\ driver.pc = "loop"
    /\ ~scenario_ended /\ driver.step < max_steps
    /\ \E check \in {is_action_allowed(decided, state)},
          warnings \in {get_constraint_warnings(decided, state)} :
       \E chosen_action \in {IF ~check[1] THEN CALL_FOR_HELP ELSE decided} :
       \E after \in {SimApply(Sim, chosen_action)} :
       LET break == after.state.user_urgency = 0
                    \/ is_battery_depleted(after.state)
       IN  /\ state' = after.state
           /\ history' = after.history
           /\ scenario_ended' = after.scenario_ended
           /\ result' = after.result
           /\ driver' = [driver EXCEPT !.step = @ + 1,
                                       !.chosen_action = chosen_action,
                                       !.allowed = check[1],
                                       !.reason = check[2],
                                       !.warnings = warnings,
                                       !.pc = IF break THEN "summary" ELSE "loop"]
    /\ UNCHANGED <<max_steps, last_query>>

ArbitraryInit ==
    /\ \E b \in MinBattery..MaxBattery, u \in MinUrgency..MaxUrgency,
          ms \in 0..MaxBudget :
            /\ SimInit(RobotState(b, u), ms)
            /\ driver = [pc |-> "loop", step |-> 0,
                         decision_fn |-> "arbitrary",
                         initial_battery |-> b, initial_urgency |-> u,
                         chosen_action |-> "None", allowed |-> TRUE,
                         reason |-> "", warnings |-> <<>>,
                         summary |-> "None"]
    /\ last_query = NoQuery

ArbitraryIterate == \E decided \in Action : DriverPass(decided)

ArbitraryNext == ArbitraryIterate \/ DriverLoopExit \/ DriverSummary

ArbitrarySpec == ArbitraryInit /\ [][ArbitraryNext]_vars

\* The same runs from the call of the driver on: the caller has built no
\* simulator yet, and the entry of run_scenario_with_implementation builds
\* it from the arguments (initial_state, max_steps)
CallInit ==
    /\ SimInit(RobotState(MinBattery, MinUrgency), 0)
    /\ driver = [pc |-> "call", step |-> 0, decision_fn |-> "arbitrary",
                 initial_battery |-> MinBattery, initial_urgency |-> MinUrgency,
                 chosen_action |-> "None", allowed |-> TRUE,
                 reason |-> "", warnings |-> <<>>, summary |-> "None"]
    /\ last_query = NoQuery

\* sim = RobotSimulator(initial_state, max_steps); step = 0
DriverEnter ==
    /\ driver.pc = "call"
    /\ \E b \in MinBattery..MaxBattery, u \in MinUrgency..MaxUrgency,
          ms \in 0..MaxBudget :
            /\ state' = RobotState(b, u)
            /\ max_steps' = ms
            /\ driver' = [driver EXCEPT !.pc = "loop",
                                        !.initial_battery = b,
                                        !.initial_urgency = u]
    /\ UNCHANGED <<history, scenario_ended, result, last_query>>

CallNext == DriverEnter \/ ArbitraryNext

\* the driver is one sequential loop: while it has a step to take it takes it
CallFairSpec == CallInit /\ [][CallNext]_vars /\ WF_vars(CallNext)

(***************************************************************************)
(* The simulator from time_step 0 under either kind of caller: a client    *)
(* calling apply_action directly, or the driver loop with any decision     *)
(***************************************************************************)
CallerInit == EngineInit \/ ArbitraryInit

\* a direct call; the simulator of a driver run is called by the loop only
DirectCall == driver = NoDriver /\ Next

CallerNext == DirectCall \/ ArbitraryNext

CallerSpec == CallerInit /\ [][CallerNext]_vars

(***************************************************************************)
(* Properties                                                              *)
(***************************************************************************)
\* this step is an apply_action call (every call appends one history entry)
Called == Len(history') = Len(history) + 1

\* this step is an apply_action call of the given action
Applied(action) == Called /\ history'[Len(history')].action = action

\* the action of the last apply_action call
LastAction == history[Len(history)].action

\* C1: after any sequence of apply_action calls, whatever the four actions,
\* their order and the initial state, the state has 0 <= battery <= 100 and
\* 0 <= user_urgency <= 3.
C1_ClampingInvariant ==
    Len(history) > 0 =>
        /\ 0 <= state.battery /\ state.battery <= 100
        /\ 0 <= state.user_urgency /\ state.user_urgency <= 3

\* a call whose raw effect left both ranges: RECHARGE took a battery of 130 to
\* 180 and the urgency was 5, and the state after the call is 100 and 3
C1_Witness ==
    /\ Len(history) = 1
    /\ LastAction = RECHARGE
    /\ history[1].result = "Recharged battery (130->180%)"
    /\ history[1].state =
         "[Step 2] Battery=100%, Task=navigating, Urgency=HIGH, Distance to user=5.0m"
    /\ state.battery = 100
    /\ state.user_urgency = 3

\* C2: in a driver run, under either decision function and from any
\* in-domain initial state, HELP_USER is never applied in a state whose
\* battery is below 10.
C2_NoHelpBelowTen ==
    [][Applied(HELP_USER) => state.battery >= 10]_vars

\* the driver has applied HELP_USER at a battery of exactly 10
C2_Witness ==
    /\ Len(history) = 1
    /\ driver.initial_battery = 10
    /\ driver.chosen_action = HELP_USER
    /\ LastAction = HELP_USER
    /\ state.battery = 0

\* C3: apply_action(HELP_USER) never consults the constraints: from any state
\* of the domain it sets battery to max(0, battery - 15), user_urgency to
\* max(0, user_urgency - 1) and current_task to "helping"; forced at
\* battery < 10 it still executes and leaves the battery at 0.
C3_HelpUserEffect ==
    [][(Applied(HELP_USER) /\ InDomain(state)) =>
          /\ state'.battery = Max(0, state.battery - 15)
          /\ state'.user_urgency = Max(0, state.user_urgency - 1)
          /\ state'.current_task = "helping"
          /\ (state.battery < 10 => state'.battery = 0)
          /\ result'.success]_vars

\* HELP_USER forced on a battery of 5, which is_action_allowed blocks
C3_Witness ==
    /\ Len(history) = 2
    /\ history[1].state =
         "[Step 1] Battery=5%, Task=idle, Urgency=MEDIUM, Distance to user=5.0m"
    /\ LastAction = HELP_USER
    /\ history[2].result = "Helped user (urgency 2->1)"
    /\ state.battery = 0
    /\ state.user_urgency = 1
    /\ state.current_task = "helping"

\* C4: apply_action(WAIT) from an in-domain state raises user_urgency by
\* exactly 1 when it is below 3 and leaves it at 3 otherwise; the state after
\* the call is a function of the state before it.
C4_WaitEffect ==
    [][(Applied(WAIT) /\ InDomain(state)) =>
          /\ state.user_urgency < 3 =>
                state'.user_urgency = state.user_urgency + 1
          /\ state.user_urgency = 3 => state'.user_urgency = 3
          /\ state' = [state EXCEPT
                          !.battery = Max(0, state.battery - 2),
                          !.user_urgency = Min(3, state.user_urgency + 1),
                          !.current_task = "idle",
                          !.time_step = state.time_step + 1]]_vars

\* WAIT has raised a medium urgency to critical
C4_Witness ==
    /\ Len(history) = 2
    /\ history[1].state =
         "[Step 1] Battery=48%, Task=idle, Urgency=MEDIUM, Distance to user=5.0m"
    /\ LastAction = WAIT
    /\ history[2].result = "Waited and observed [User urgency increased to 3!]"
    /\ state.user_urgency = 3

C6_CallForHelpEnds ==
    [][Applied(CALL_FOR_HELP) =>
          /\ scenario_ended'
          /\ InDomain(state) => state'.user_urgency = state.user_urgency]_vars

\* CALL_FOR_HELP applied a second time, within the step budget
C6_Witness ==
    /\ Len(history) = 2
    /\ history[1].action = CALL_FOR_HELP
    /\ LastAction = CALL_FOR_HELP
    /\ state.time_step < max_steps
    /\ state.user_urgency = 2
    /\ scenario_ended

\* the (action, state) pairs the checker blocks, as the rules list them
Blocked(action, s) ==
    \/ action = HELP_USER /\ s.battery < 10
    \/ action = WAIT /\ s.user_urgency >= 3 /\ s.battery >= 15
    \/ action = RECHARGE /\ s.battery >= 95

\* C7: for every action and in-domain state, is_action_allowed returns
\* allowed = false exactly when (HELP_USER and battery < 10) or (WAIT and
\* user_urgency >= 3 and battery >= 15) or (RECHARGE and battery >= 95).
C7_BlockedExactly ==
    last_query.fn = "is_action_allowed" =>
        (last_query.ret[1] = FALSE
            <=> Blocked(last_query.action, last_query.state))

\* WAIT was allowed at critical urgency because helping is not affordable
C7_Witness ==
    /\ last_query.fn = "is_action_allowed"
    /\ last_query.action = WAIT
    /\ last_query.state.user_urgency = 3
    /\ last_query.state.battery = 14
    /\ last_query.ret[1] = TRUE

\* C8: the reason is that of the first rule that triggers, in the order
\* depleted, too low, wait-critical, fully charged; an allowed action yields
\* "Action allowed".
C8_FirstRuleReason ==
    last_query.fn = "is_action_allowed" =>
        LET action == last_query.action
            s == last_query.state
            reason == last_query.ret[2]
        IN  /\ (action = HELP_USER /\ s.battery <= 0) =>
                  reason = "Cannot help user: battery depleted"
            /\ (action = HELP_USER /\ 0 < s.battery /\ s.battery < 10) =>
                  reason = "Cannot help user: battery too low (need 10%)"
            /\ (action = WAIT /\ s.user_urgency >= 3 /\ s.battery >= 15) =>
                  reason = "Cannot wait: user urgency is critical and we can help"
            /\ (action = RECHARGE /\ s.battery >= 95) =>
                  reason = "Already fully charged"
            /\ last_query.ret[1] <=> reason = "Action allowed"

\* HELP_USER on an empty battery was reported as depleted
C8_Witness ==
    /\ last_query.fn = "is_action_allowed"
    /\ last_query.action = HELP_USER
    /\ last_query.state.battery = 0
    /\ last_query.ret = <<FALSE, "Cannot help user: battery depleted">>

\* the (action, state) pairs that draw a warning
Warned(action, s) ==
    \/ action = HELP_USER /\ s.battery < 20
    \/ action = RECHARGE /\ s.user_urgency >= 2
    \/ action = WAIT /\ s.user_urgency >= 2

\* what get_constraint_warnings is documented to return
C9_WarningsExactly ==
    last_query.fn = "get_constraint_warnings" =>
        /\ last_query.ret # <<>> <=> Warned(last_query.action, last_query.state)
        /\ Len(last_query.ret) <= 1
        /\ last_query.action = CALL_FOR_HELP => last_query.ret = <<>>

\* what a pass of the driver applies, the warnings playing no part
C9_WarningsAdvisory ==
    Called =>
        LET decided == Decide(driver.decision_fn, state)
        IN  /\ driver'.warnings # <<>> <=> Warned(decided, state)
            /\ LastAction' = IF is_action_allowed(decided, state)[1]
                             THEN decided ELSE CALL_FOR_HELP

\* C9: get_constraint_warnings returns a non-empty list exactly when
\* (HELP_USER and battery < 20) or (RECHARGE and user_urgency >= 2) or (WAIT
\* and user_urgency >= 2), at most one warning per call and none for
\* CALL_FOR_HELP; a warning never changes which action the driver applies.
C9_Warnings == []C9_WarningsExactly /\ [][C9_WarningsAdvisory]_vars

\* the driver has applied HELP_USER although it drew the low-battery warning
C9_Witness ==
    /\ driver.pc = "loop"
    /\ driver.warnings =
         <<"WARNING: Helping with critically low battery (risk of depletion)">>
    /\ driver.allowed
    /\ LastAction = HELP_USER
    /\ last_query.fn = "get_constraint_warnings"
    /\ last_query.action = WAIT
    /\ last_query.state = state
    /\ last_query.ret = <<"WARNING: Waiting while user urgency is high">>

\* some applied action was CALL_FOR_HELP
CalledForHelp == \E i \in 1..Len(history) : history[i].action = CALL_FOR_HELP

\* scenario_ended after a non-empty sequence of calls
C10_EndedIff ==
    Len(history) > 0 =>
        (scenario_ended <=> (CalledForHelp \/ state.time_step >= max_steps))

C11_BlockedReplaced ==
    [][Called =>
          /\ is_action_allowed(LastAction', state)[1]
          /\ ~driver'.allowed =>
                /\ LastAction' = CALL_FOR_HELP
                /\ scenario_ended']_vars

\* RECHARGE was chosen on a full battery, inside the step budget, and
\* CALL_FOR_HELP was applied in its place
C11_Witness ==
    /\ Len(history) = 1
    /\ driver.initial_battery = 100
    /\ ~driver.allowed
    /\ driver.reason = "Already fully charged"
    /\ driver.chosen_action = CALL_FOR_HELP
    /\ LastAction = CALL_FOR_HELP
    /\ state.battery = 95
    /\ state.time_step < max_steps
    /\ scenario_ended

\* C12: for every in-domain state the action choose_action returns, in the
\* placeholder and in the reference version, is allowed by
\* is_action_allowed in that same state.
C12_ChoiceAllowed ==
    last_query.fn = "choose_action" =>
        is_action_allowed(last_query.ret, last_query.state)[1]

\* the reference version answered HELP_USER from a strategic rule, with no
\* constraint filter, on battery 50 and urgency 1
C12_Witness ==
    /\ last_query.fn = "choose_action"
    /\ last_query.decision_fn = "solution"
    /\ last_query.state.battery = 50
    /\ last_query.state.user_urgency = 1
    /\ last_query.ret = HELP_USER

\* the driver run started below 10% with no urgency
C13_Case == driver.initial_battery < 10 /\ driver.initial_urgency = 0

\* C13: from an initial battery < 10 and urgency 0, a driver run under either
\* decision function never selects HELP_USER and finishes with
\* battery_depleted = false or at the step budget.
C13_LowBatteryRun ==
    C13_Case =>
        /\ \A i \in 1..Len(history) : history[i].action # HELP_USER
        /\ (driver.pc = "loop" /\ ~scenario_ended /\ driver.step < max_steps)
              => Decide(driver.decision_fn, state) # HELP_USER
        /\ driver.pc = "done" =>
              \/ ~driver.summary.battery_depleted
              \/ driver.step >= max_steps

\* the run from battery 5 with a budget of 6 is over: one RECHARGE, battery
\* not depleted
C13_Witness ==
    /\ driver.pc = "done"
    /\ driver.initial_battery = 5
    /\ driver.initial_urgency = 0
    /\ max_steps = 6
    /\ Len(history) = 1
    /\ LastAction = RECHARGE
    /\ driver.summary.final_battery = 55
    /\ ~driver.summary.battery_depleted

\* C14: for every state with user_urgency >= 3 the reference choose_action
\* returns HELP_USER when battery >= 10 and CALL_FOR_HELP when battery < 10.
C14_CriticalUrgencyRule ==
    (/\ last_query.fn = "choose_action"
     /\ last_query.decision_fn = "solution"
     /\ last_query.state.user_urgency >= 3) =>
        last_query.ret = IF last_query.state.battery >= 10
                         THEN HELP_USER ELSE CALL_FOR_HELP

\* the first call on battery 80, urgency 3 returned HELP_USER
C14_Witness ==
    /\ last_query.fn = "choose_action"
    /\ last_query.decision_fn = "solution"
    /\ last_query.state.battery = 80
    /\ last_query.state.user_urgency = 3
    /\ last_query.state.time_step = 0
    /\ last_query.ret = HELP_USER

\* C15: for every state with battery < 10, whatever the urgency, the
\* reference choose_action returns RECHARGE or CALL_FOR_HELP, never
\* HELP_USER or WAIT.
C15_LowBatteryRule ==
    (/\ last_query.fn = "choose_action"
     /\ last_query.decision_fn = "solution"
     /\ last_query.state.battery < 10) =>
        last_query.ret \in {RECHARGE, CALL_FOR_HELP}

\* battery 5 with a low urgency was answered by RECHARGE
C15_Witness ==
    /\ last_query.fn = "choose_action"
    /\ last_query.decision_fn = "solution"
    /\ last_query.state.battery = 5
    /\ last_query.state.user_urgency = 1
    /\ last_query.ret = RECHARGE

\* the action is allowed in s and no allowed action scores above it
ScoresHighest(action, s) ==
    /\ is_action_allowed(action, s)[1]
    /\ \A other \in Action :
          is_action_allowed(other, s)[1] =>
              solution_score_action(other, s) <= solution_score_action(action, s)

NoRuleMatches(s) ==
    /\ ~(s.user_urgency >= 3)
    /\ ~(s.battery < 10)
    /\ ~(s.battery < 25)
    /\ ~(s.user_urgency >= 2 /\ s.battery >= 25)
    /\ ~(25 <= s.battery /\ s.battery < 45 /\ s.user_urgency >= 1)
    /\ ~(s.battery < 45 /\ s.user_urgency <= 1)
    /\ ~(s.user_urgency >= 1 /\ s.battery >= 45)

\* C17: when no strategic rule matches, the reference choose_action returns
\* an action that is allowed and whose score is greater than or equal to
\* that of every other allowed action in that state.
C17_FallbackReturnsBest ==
    (/\ last_query.fn = "choose_action"
     /\ last_query.decision_fn = "solution"
     /\ NoRuleMatches(last_query.state)) =>
        ScoresHighest(last_query.ret, last_query.state)

\* the fallback answered RECHARGE on battery 50, urgency 0, where it
\* outscores HELP_USER
C17_Witness ==
    /\ last_query.fn = "choose_action"
    /\ last_query.decision_fn = "solution"
    /\ last_query.state.battery = 50
    /\ last_query.state.user_urgency = 0
    /\ NoRuleMatches(last_query.state)
    /\ last_query.ret = RECHARGE
    /\ solution_score_action(RECHARGE, last_query.state)
         > solution_score_action(HELP_USER, last_query.state)

\* weight i is strictly the largest of the three
Largest(weights, i) == \A j \in (1..3) \ {i} : weights[i] > weights[j]

\* C18 as stated: in the reference score_action, whenever user_urgency >= 3
\* the helpfulness weight is the largest, whenever battery < 20 the safety
\* weight is the largest, and every other state uses the balanced default.
C18_Original ==
    last_query.fn = "score_action" =>
        LET s == last_query.state
            weights == last_query.weights
        IN  /\ s.user_urgency >= 3 => Largest(weights, 2)
            /\ s.battery < 20 => Largest(weights, 1)
            /\ ~(s.user_urgency >= 3 \/ s.battery < 20) =>
                  weights = <<25, 55, 20>>

\* C18 (amended): the urgency contexts are tested before the battery ones.
\* user_urgency >= 3 gives (0.20, 0.70, 0.10) and user_urgency = 2 gives
\* (0.25, 0.60, 0.15), helpfulness largest whatever the battery; below
\* urgency 2, battery < 20 gives (0.70, 0.20, 0.10) and 20 <= battery < 35
\* gives (0.55, 0.30, 0.15), safety largest; only urgency < 2 with
\* battery >= 35 uses the default (0.25, 0.55, 0.20).
C18_WeightContexts ==
    last_query.fn = "score_action" =>
        LET s == last_query.state
            weights == last_query.weights
        IN  /\ s.user_urgency >= 3 => weights = <<20, 70, 10>>
            /\ s.user_urgency = 2 => weights = <<25, 60, 15>>
            /\ s.user_urgency >= 2 => Largest(weights, 2)
            /\ (s.user_urgency < 2 /\ s.battery < 20) =>
                  weights = <<70, 20, 10>>
            /\ (s.user_urgency < 2 /\ 20 <= s.battery /\ s.battery < 35) =>
                  weights = <<55, 30, 15>>
            /\ (s.user_urgency < 2 /\ s.battery < 35) => Largest(weights, 1)
            /\ (s.user_urgency < 2 /\ s.battery >= 35) =>
                  weights = <<25, 55, 20>>
            /\ last_query.ret =
                  score_safety(last_query.action, s) * weights[1]
                + score_helpfulness(last_query.action, s) * weights[2]
                + score_efficiency(last_query.action, s) * weights[3]

\* score_action(HELP_USER) was called on battery 15 with urgency 3: the
\* helpfulness weight, not the safety weight, is the largest
C18_Witness ==
    /\ last_query.fn = "score_action"
    /\ last_query.action = HELP_USER
    /\ last_query.state.battery = 15
    /\ last_query.state.user_urgency = 3
    /\ last_query.weights = <<20, 70, 10>>
    /\ ~Largest(last_query.weights, 1)

\* call r repeats the function and the arguments of call q
SameCall(q, r) ==
    /\ q.fn # "none"
    /\ r.fn = q.fn
    /\ r.state = q.state
    /\ q.fn = "choose_action" => r.decision_fn = q.decision_fn
    /\ q.fn \in {"is_action_allowed", "get_constraint_warnings"} =>
          r.action = q.action

C20_DescriptiveFieldsIgnored ==
    LET q == last_query
    IN  q.fn # "none" =>
          LET plain == RobotState(q.state.battery, q.state.user_urgency)
          IN  /\ q.fn = "is_action_allowed" =>
                    q.ret = is_action_allowed(q.action, plain)
              /\ q.fn = "get_constraint_warnings" =>
                    q.ret = get_constraint_warnings(q.action, plain)
              /\ q.fn = "choose_action" =>
                    q.ret = Decide(q.decision_fn, plain)

\* the placeholder choose_action answered RECHARGE on battery 50, urgency 1
\* for a state differing from the default one in all five descriptive fields
C20_Witness ==
    /\ last_query.fn = "choose_action"
    /\ last_query.decision_fn = "implementation"
    /\ last_query.state.battery = 50
    /\ last_query.state.user_urgency = 1
    /\ last_query.state.current_task = "navigating"
    /\ last_query.state.distance_to_user = 30
    /\ last_query.state.distance_to_charger = 150
    /\ last_query.state.time_pressure
    /\ last_query.state.time_step = 3
    /\ last_query.ret = Decide("implementation", RobotState(50, 1))

\* C21: apply_action, for every action and state, leaves distance_to_user,
\* distance_to_charger, time_pressure and max_steps unchanged; of the state
\* it modifies only battery, user_urgency, current_task and time_step.
C21_ApplyActionFrame ==
    [][Called =>
          /\ state'.distance_to_user = state.distance_to_user
          /\ state'.distance_to_charger = state.distance_to_charger
          /\ state'.time_pressure = state.time_pressure
          /\ max_steps' = max_steps
          /\ DOMAIN state' = DOMAIN state]_vars

\* RECHARGE was applied to a state 15 m from the charger under time
\* pressure: battery, task and time_step changed, the distances did not
C21_Witness ==
    /\ Len(history) = 1
    /\ LastAction = RECHARGE
    /\ state.battery = 70
    /\ state.current_task = "navigating"
    /\ state.time_step = 2
    /\ state.distance_to_user = 30
    /\ state.distance_to_charger = 150
    /\ state.time_pressure
    /\ max_steps = 5

\* the time costs as the specification lists them
ListedTimeCost(action) == IF action = RECHARGE THEN 2 ELSE 1

\* the sum of the listed time costs of the actions of a history
RECURSIVE TimeCostSum(_)
TimeCostSum(h) ==
    IF h = <<>> THEN 0
    ELSE TimeCostSum(SubSeq(h, 1, Len(h) - 1)) + ListedTimeCost(h[Len(h)].action)

C22_SumOfCosts == state.time_step = TimeCostSum(history)

C22_StepByCost ==
    /\ state'.time_step >= state.time_step
    /\ Called => state'.time_step = state.time_step + ListedTimeCost(LastAction')

\* C22: time_step never decreases: each apply_action increases it by exactly
\* the applied action's time cost (2 for RECHARGE, 1 for HELP_USER, WAIT and
\* CALL_FOR_HELP), so after any sequence of actions from time_step 0 it
\* equals the sum of the time costs of the applied actions.
C22_TimeStep == []C22_SumOfCosts /\ [][C22_StepByCost]_vars

\* RECHARGE then WAIT from time_step 0 leave time_step at 2 + 1
C22_Witness ==
    /\ Len(history) = 2
    /\ history[1].action = RECHARGE
    /\ history[2].action = WAIT
    /\ history[1].step = 2
    /\ state.time_step = 3

\* the action whose effect method built the ActionResult r: the four
\* battery_change values differ
AppliedBy(r) ==
    CHOOSE action \in Action : r.battery_change = -get_battery_cost(action)

\* C23: the history is append-only: every apply_action call, including the
\* calls made after the scenario has ended, appends exactly one entry and
\* changes no earlier entry; the new entry's action is the applied action,
\* its step is the post-action time_step and its state snapshot is the
\* state after effect application and clamping.
C23_HistoryAppendOnly ==
    [][/\ Len(history') = Len(history) + 1
       /\ SubSeq(history', 1, Len(history)) = history
       /\ LET entry == history'[Len(history')]
          IN  /\ entry.action = AppliedBy(result')
              /\ entry.step = state'.time_step
              /\ entry.state = StateStr(state')
              /\ entry.result = result'.message
              /\ state' = Clamp(state')]_vars

\* RECHARGE was applied at battery 95 after CALL_FOR_HELP had ended the
\* scenario at battery 100: the second entry shows the clamped state
C23_Witness ==
    /\ Len(history) = 2
    /\ history[1].action = CALL_FOR_HELP
    /\ history[2].action = RECHARGE
    /\ scenario_ended
    /\ max_steps = 5
    /\ state.battery = 100
    /\ state.distance_to_user = 50
    /\ history[2].step = 3
    /\ history[2].state = StateStr(state)

\* the summary r describes the state s
Summarises(r, s) ==
    /\ r.total_steps = s.time_step
    /\ r.final_battery = s.battery
    /\ r.final_urgency = s.user_urgency
    /\ r.user_helped = (s.user_urgency = 0)
    /\ r.battery_depleted = (s.battery <= 0)

C24_SummaryFields ==
    /\ last_query.fn = "get_summary" =>
          Summarises(last_query.ret, last_query.state)
    /\ driver.pc = "done" => Summarises(driver.summary, state)

C24_SummaryFrame ==
    (\/ last_query' # last_query
     \/ driver.pc = "summary" /\ driver'.pc = "done") =>
        /\ state' = state
        /\ max_steps' = max_steps
        /\ history' = history
        /\ scenario_ended' = scenario_ended

\* C24: at any point of a run, get_summary returns total_steps = time_step,
\* final_battery = battery, final_urgency = user_urgency, user_helped =
\* (user_urgency = 0) and battery_depleted = (battery <= 0), and it does
\* not change the simulator; a run can end with both flags true.
C24_Summary == []C24_SummaryFields /\ [][C24_SummaryFrame]_vars

\* a run ended by HELP_USER at battery 15, urgency 1: the summary reports
\* both user_helped and battery_depleted
C24_Witness ==
    /\ driver.pc = "done"
    /\ driver.initial_battery = 15
    /\ driver.initial_urgency = 1
    /\ Len(history) = 1
    /\ LastAction = HELP_USER
    /\ driver.summary.user_helped
    /\ driver.summary.battery_depleted
    /\ driver.summary.final_battery = 0
    /\ driver.summary.total_steps = 1

\* the net battery costs as the specification lists them
ListedBatteryCost(action) ==
    CASE action = HELP_USER -> 15
      [] action = RECHARGE -> -50
      [] action = WAIT -> 2
      [] action = CALL_FOR_HELP -> 5

\* C25: for each of the four actions and every in-domain state, the battery
\* after apply_action equals clamp(battery_before - get_battery_cost(action),
\* 0, 100), where get_battery_cost is 15 for HELP_USER, -50 for RECHARGE,
\* 2 for WAIT and 5 for CALL_FOR_HELP.
C25_BatteryByCatalog ==
    [][(Called /\ InDomain(state)) =>
          LET action == LastAction'
              net == state.battery - get_battery_cost(action)
          IN  /\ get_battery_cost(action) = ListedBatteryCost(action)
              /\ state'.battery =
                    IF net < 0 THEN 0 ELSE IF net > 100 THEN 100 ELSE net]_vars

\* RECHARGE at battery 80 leaves 100, the clamp of 80 - (-50)
C25_Witness ==
    /\ Len(history) = 1
    /\ LastAction = RECHARGE
    /\ result.battery_change = 50
    /\ state.battery = 100
    /\ history[1].result = "Recharged battery (80->130%)"

\* C26: the ActionResult returned by apply_action reports the state change
\* the action made: its battery_change equals battery_after - battery_before
\* and its urgency_change equals user_urgency_after - user_urgency_before,
\* for every action and every in-domain state.
C26_ResultReportsChange ==
    [][(Called /\ InDomain(state)) =>
          /\ result'.battery_change = state'.battery - state.battery
          /\ result'.urgency_change =
                state'.user_urgency - state.user_urgency]_vars

\* sequence g starts with sequence h
IsPrefix(h, g) == Len(h) <= Len(g) /\ SubSeq(g, 1, Len(h)) = h

C28_AtMostMaxSteps ==
    /\ Len(history) <= max_steps
    /\ driver.step = Len(history)

C28_LoopStops == <>(driver.pc = "done")

\* C28: every driver run terminates: for any in-domain initial state, any
\* max_steps >= 0 and any decision function, the loop stops after applying
\* at most max_steps actions.
C28_RunTerminates == []C28_AtMostMaxSteps /\ C28_LoopStops

\* a run with max_steps 3 is finished after three one-step actions, none of
\* them CALL_FOR_HELP
C28_Witness ==
    /\ driver.pc = "done"
    /\ max_steps = 3
    /\ Len(history) = 3
    /\ \A i \in 1..3 : history[i].action \in {HELP_USER, WAIT}
    /\ state.time_step = 3
    /\ scenario_ended
    /\ driver.summary.total_steps = 3

\* C29: max_steps is the maximum number of time steps of a run: in a driver
\* run started at time_step 0, the simulator's time_step (reported as
\* total_steps) never exceeds max_steps.
C29_TimeWithinBudget ==
    /\ state.time_step <= max_steps
    /\ driver.pc = "done" => driver.summary.total_steps <= max_steps

\* this step is a pass of a reference run that selects and applies
\* HELP_USER in the low band with an urgent user
HelpedInLowBand ==
    /\ driver.decision_fn = "solution"
    /\ Called
    /\ 10 <= state.battery /\ state.battery < 25
    /\ state.user_urgency >= 2
    /\ solution_choose_action(state) = HELP_USER
    /\ LastAction' = HELP_USER

\* the run goes on after this step
RunContinues ==
    /\ ~scenario_ended'
    /\ state'.user_urgency # 0
    /\ ~is_battery_depleted(state')
    /\ driver'.pc = "loop"

\* C30 as stated: whenever the reference choose_action selects HELP_USER in
\* a state with 10 <= battery < 25 and user_urgency >= 2 and the driver run
\* continues after that action, the next action chosen is RECHARGE.
C30_Original ==
    [][(HelpedInLowBand /\ RunContinues) =>
          solution_choose_action(state') = RECHARGE]_vars

\* C30 (amended): under the same conditions the next action chosen is
\* RECHARGE when user_urgency was 2, and CALL_FOR_HELP when it was 3 (the
\* state after helping then has battery below 10 and urgency 2).
C30_HelpThenRecharge ==
    [][(HelpedInLowBand /\ RunContinues) =>
          /\ state'.battery < 10
          /\ solution_choose_action(state') =
                IF state.user_urgency = 2 THEN RECHARGE ELSE CALL_FOR_HELP]_vars

\* the reference run from battery 20, urgency 2 helped once and then
\* recharged from battery 5
C30_Witness ==
    /\ driver.decision_fn = "solution"
    /\ driver.initial_battery = 20
    /\ driver.initial_urgency = 2
    /\ max_steps = 4
    /\ Len(history) = 2
    /\ history[1].action = HELP_USER
    /\ history[2].action = RECHARGE
    /\ state.battery = 55
    /\ state.user_urgency = 1

\* C31: the placeholder choose_action (with the naive score_action) never
\* returns CALL_FOR_HELP for any in-domain state, because some allowed action
\* always scores above -100.
C31_PlaceholderNeverCalls ==
    (last_query.fn = "choose_action"
     /\ last_query.decision_fn = "implementation") =>
        /\ last_query.ret # CALL_FOR_HELP
        /\ \E action \in Action :
              /\ is_action_allowed(action, last_query.state)[1]
              /\ impl_score_action(action, last_query.state) > -100
        /\ impl_score_action(CALL_FOR_HELP, last_query.state) = -100

\* on battery 0 with a critical user, where HELP_USER is blocked, the
\* placeholder answered RECHARGE
C31_Witness ==
    /\ last_query.fn = "choose_action"
    /\ last_query.decision_fn = "implementation"
    /\ last_query.state.battery = 0
    /\ last_query.state.user_urgency = 3
    /\ ~is_action_allowed(HELP_USER, last_query.state)[1]
    /\ last_query.ret = RECHARGE

\* C32: CALL_FOR_HELP is allowed by is_action_allowed in every state, so the
\* set of allowed actions is never empty, the fail-safe branch "no valid
\* action -> CALL_FOR_HELP" of choose_action and choose_by_scoring is never
\* taken, and choose_action never returns None.
C32_CallForHelpAlwaysAllowed ==
    /\ \A b \in OutOfDomainBattery, u \in OutOfDomainUrgency :
          is_action_allowed(CALL_FOR_HELP, RobotState(b, u))[1]
    /\ last_query.fn # "none" =>
          /\ is_action_allowed(CALL_FOR_HELP, last_query.state)[1]
          /\ ValidActions(last_query.state) # <<>>
    /\ (last_query.fn = "is_action_allowed"
        /\ last_query.action = CALL_FOR_HELP) =>
          last_query.ret = <<TRUE, "Action allowed">>
    /\ last_query.fn = "choose_action" =>
          /\ last_query.ret \in Action
          /\ last_query.ret # NoBest.best_action

\* is_action_allowed(CALL_FOR_HELP) answered yes on battery 0, urgency 3,
\* where CALL_FOR_HELP and RECHARGE are the only allowed actions
C32_Witness ==
    /\ last_query.fn = "is_action_allowed"
    /\ last_query.action = CALL_FOR_HELP
    /\ last_query.state.battery = 0
    /\ last_query.state.user_urgency = 3
    /\ last_query.ret[1]
    /\ ValidActions(last_query.state) = <<RECHARGE, WAIT, CALL_FOR_HELP>>

\* in a driver run
InDriverRun == driver.pc # "none"

C33_TimeBetween ==
    /\ Len(history) <= state.time_step
    /\ state.time_step <= 2 * Len(history)

\* C33 as stated: for a simulator started at time_step 0, after any sequence
\* of apply_action calls len(history) <= time_step <= 2 * len(history);
\* hence in a driver run scenario_ended is already true whenever the
\* driver's own step counter reaches max_steps, and the final time_step is
\* at most max_steps + 1.
C33_Original ==
    /\ C33_TimeBetween
    /\ InDriverRun =>
          /\ driver.step >= max_steps => scenario_ended
          /\ state.time_step <= max_steps + 1

\* C33 (amended): the same, with scenario_ended already true whenever the
\* step counter reaches max_steps after at least one pass of the loop; with
\* max_steps = 0 the counter starts at max_steps, no action is applied and
\* scenario_ended stays false.
C33_TimeAndBudget ==
    /\ C33_TimeBetween
    /\ InDriverRun =>
          /\ (driver.step >= max_steps /\ driver.step >= 1) => scenario_ended
          /\ (max_steps = 0) => (driver.step = 0 /\ ~scenario_ended)
          /\ state.time_step <= max_steps + 1

\* a driver run with max_steps 2 applied WAIT and then RECHARGE: the step
\* counter is at max_steps, the scenario has ended and time_step is 3
C33_Witness ==
    /\ InDriverRun
    /\ max_steps = 2
    /\ driver.step = 2
    /\ Len(history) = 2
    /\ history[1].action = WAIT
    /\ history[2].action = RECHARGE
    /\ state.time_step = 3
    /\ scenario_ended


\* C34: the reference choose_action never returns WAIT for an in-domain
\* state: no strategic rule returns it, and in every state that reaches the
\* scoring fallback some allowed action scores strictly higher than WAIT.
C34_ReferenceNeverWaits ==
    (last_query.fn = "choose_action"
     /\ last_query.decision_fn = "solution") =>
        /\ last_query.ret # WAIT
        /\ NoRuleMatches(last_query.state) =>
              /\ last_query.ret = choose_by_scoring(last_query.state)
              /\ \E action \in Action :
                    /\ is_action_allowed(action, last_query.state)[1]
                    /\ solution_score_action(action, last_query.state)
                          > solution_score_action(WAIT, last_query.state)

\* the fallback was reached on a full battery with nobody waiting, WAIT was
\* allowed there and HELP_USER was returned
C34_Witness ==
    /\ last_query.fn = "choose_action"
    /\ last_query.decision_fn = "solution"
    /\ last_query.state.battery = 100
    /\ last_query.state.user_urgency = 0
    /\ NoRuleMatches(last_query.state)
    /\ is_action_allowed(WAIT, last_query.state)[1]
    /\ last_query.ret = HELP_USER

\* a driver run under the reference decision layer
ReferenceRun == driver.pc # "none" /\ driver.decision_fn = "solution"

\* the reference policy gives up on s: battery below 10 with urgency 2 or 3
Stuck(s) == s.battery < 10 /\ s.user_urgency >= 2

\* C35: the reference choose_action returns CALL_FOR_HELP only in states
\* with battery < 10 and user_urgency >= 2, and in every such state it does;
\* consequently in a driver run under the reference policy the scenario ends
\* by human handoff only from such a state.
C35_HandoffOnlyWhenStuck ==
    /\ [](ReferenceRun =>
            (solution_choose_action(state) = CALL_FOR_HELP <=> Stuck(state)))
    /\ [][(ReferenceRun /\ Applied(CALL_FOR_HELP)) =>
            /\ Stuck(state)
            /\ is_action_allowed(solution_choose_action(state), state)[1]
            /\ scenario_ended']_vars

\* a reference run from battery 5, urgency 2 ended by handoff at its first
\* step
C35_Witness ==
    /\ ReferenceRun
    /\ driver.initial_battery = 5
    /\ driver.initial_urgency = 2
    /\ Len(history) = 1
    /\ LastAction = CALL_FOR_HELP
    /\ driver.chosen_action = CALL_FOR_HELP
    /\ driver.allowed
    /\ scenario_ended

\* C36: with user_urgency 0 the reference choose_action returns RECHARGE
\* when battery < 70 and HELP_USER when battery >= 70: the scoring fallback
\* is reached only for urgency 0 and battery >= 45, and there RECHARGE
\* outscores HELP_USER exactly for battery 45..69.
C36_CalmRechargesBelow70 ==
    (last_query.fn = "choose_action"
     /\ last_query.decision_fn = "solution") =>
        LET s == last_query.state
        IN  /\ s.user_urgency = 0 =>
                 last_query.ret = IF s.battery < 70 THEN RECHARGE ELSE HELP_USER
            /\ NoRuleMatches(s) <=> (s.user_urgency = 0 /\ s.battery >= 45)
            /\ NoRuleMatches(s) =>
                 /\ last_query.ret = choose_by_scoring(s)
                 /\ (solution_score_action(RECHARGE, s)
                        > solution_score_action(HELP_USER, s))
                      <=> (45 <= s.battery /\ s.battery <= 69)

\* the fallback chose RECHARGE at battery 69 with nobody waiting, where
\* RECHARGE scores 46.25 against 45.5 for HELP_USER
C36_Witness ==
    /\ last_query.fn = "choose_action"
    /\ last_query.decision_fn = "solution"
    /\ last_query.state.user_urgency = 0
    /\ last_query.state.battery = 69
    /\ NoRuleMatches(last_query.state)
    /\ solution_score_action(RECHARGE, last_query.state) = 4625
    /\ solution_score_action(HELP_USER, last_query.state) = 4550
    /\ last_query.ret = RECHARGE

\* C37: in a driver run under the reference decision layer, an applied
\* action leaves the battery at 0 only if the state it was applied to had
\* user_urgency >= 2 and battery <= 15; from any state with user_urgency <= 1
\* the battery after the step is strictly positive.
C37_DepletionOnlyWhenUrgent ==
    [][(ReferenceRun /\ Called) =>
          /\ state'.battery = 0 =>
                (state.user_urgency >= 2 /\ state.battery <= 15)
          /\ state.user_urgency <= 1 => state'.battery > 0]_vars

\* a reference run from battery 15, urgency 2 helped once and stopped on a
\* battery of 0
C37_Witness ==
    /\ ReferenceRun
    /\ driver.initial_battery = 15
    /\ driver.initial_urgency = 2
    /\ Len(history) = 1
    /\ LastAction = HELP_USER
    /\ state.battery = 0
    /\ state.user_urgency = 1
    /\ driver.pc # "loop"

\* the loop of the driver run has been left
Stopped == driver.pc \in {"summary", "done"}

\* C38: when a driver run with max_steps >= 1 stops, at least one action
\* has been applied (the terminal conditions are checked only after an
\* action, even if the initial state already has urgency 0 or battery 0),
\* and at least one of scenario_ended, user_urgency = 0 or battery = 0 holds
\* in the final state.
C38_StopsAfterActing ==
    (Stopped /\ max_steps >= 1) =>
        /\ Len(history) >= 1
        /\ driver.step >= 1
        /\ driver.chosen_action \in Action
        /\ scenario_ended \/ state.user_urgency = 0 \/ state.battery = 0

\* a run whose initial state already had urgency 0 applied HELP_USER once and
\* then stopped on urgency 0, the scenario not ended
C38_Witness ==
    /\ Stopped
    /\ max_steps = 3
    /\ driver.initial_urgency = 0
    /\ driver.initial_battery = 50
    /\ Len(history) = 1
    /\ LastAction = HELP_USER
    /\ state.user_urgency = 0
    /\ state.battery = 35
    /\ ~scenario_ended

==========================================================================
